---- MODULE Spec2Model ----
(***************************************************************************)
(* threadables: typed properties of JavaScript objects stored in a         *)
(* SharedArrayBuffer behind a DataView (src/src/threadables.ts).           *)
(*                                                                         *)
(* The model is a heap of objects with a prototype chain.  The three       *)
(* symbol-keyed slots of the library (_meta, _byteLength, _data) are own   *)
(* properties looked up along the chain, as JavaScript does; the accessor  *)
(* properties that declare installs are own properties of the object       *)
(* declare was called on.  A DataView is an index into regions, so two     *)
(* objects holding the same index alias the same bytes.                    *)
(***************************************************************************)
EXTENDS Integers, Sequences, FiniteSets, TLC

VARIABLES
    meta,        \* meta[o]       : own _meta slot        [own, fields]
    byteLength,  \* byteLength[o] : own _byteLength slot  [own, n]
    data,        \* data[o]       : own _data slot        [own, view, given]
    accessors,   \* accessors[o]  : own accessor properties [get, set]
    regions,     \* regions[v]    : bytes behind DataView v
    nDeclares,   \* number of declare calls made so far
    last,        \* the last call: its arguments and its outcome
    writing,     \* writing[c]   : the DataView store context c is in the middle of
    lastSet      \* lastSet[k]   : the last set of property k begun (history) [value, amid]

vars == <<meta, byteLength, data, accessors, regions, nDeclares, last, writing, lastSet>>

----------------------------------------------------------------------------
(* JavaScript values.  Every value is a record of the same shape so that   *)
(* values of different JavaScript types can be compared.                   *)

Num(n) == [tag |-> "number", n |-> n, s |-> ""]
Big(n) == [tag |-> "bigint", n |-> n, s |-> ""]
Str(s) == [tag |-> "string", n |-> 0, s |-> s]
Undefined == [tag |-> "undefined", n |-> 0, s |-> ""]
\* a Number that is no integer of the model's range (NaN, a fraction, >= 2^31)
NotInteger == [tag |-> "number", n |-> 0, s |-> "NaN"]
\* a BigInt outside the model's range
BigOutOfRange == [tag |-> "bigint", n |-> 0, s |-> "huge"]

----------------------------------------------------------------------------
(* PropertyMetadata.type: one of the ten DataView kinds, or an array of    *)
(* variants.                                                               *)

IntKinds == {"Int8", "Uint8", "Int16", "Uint16", "Int32", "Uint32"}
FloatKinds == {"Float32", "Float64"}
BigKinds == {"BigInt64", "BigUint64"}
NumericKinds == IntKinds \cup FloatKinds \cup BigKinds
SignedKinds == {"Int8", "Int16", "Int32", "BigInt64"}

Numeric(kind) == [kind |-> kind, variants |-> <<>>]
Enum(variants) == [kind |-> "Array", variants |-> variants]
IsArray(type) == type.kind = "Array"

\* parseInt(type.replace(/[^\d]+/, '')): the digits the kind's name ends with
KindBits(kind) ==
    CASE kind \in {"Int8", "Uint8"} -> 8
      [] kind \in {"Int16", "Uint16"} -> 16
      [] kind \in {"Int32", "Uint32", "Float32"} -> 32
      [] kind \in {"Float64", "BigInt64", "BigUint64"} -> 64

\* a stride of the one byte that set and get use of an array type
getByteStrideOfIndex(type) == IF IsArray(type) THEN 1 ELSE KindBits(type.kind) \div 8

getByteStride(type) == IF IsArray(type) THEN 8 ELSE KindBits(type.kind) \div 8

----------------------------------------------------------------------------
(* DataView accessors: big-endian fixed-width stores and loads.            *)

RECURSIVE Pow2(_)
Pow2(k) == IF k = 0 THEN 1 ELSE 2 * Pow2(k - 1)

RECURSIVE Log2(_)
Log2(m) == IF m <= 1 THEN 0 ELSE 1 + Log2(m \div 2)

\* the nb low-order bytes of m >= 0, least significant first
RECURSIVE UBytesLittleEndian(_, _)
UBytesLittleEndian(m, nb) ==
    IF nb = 0 THEN <<>> ELSE <<m % 256>> \o UBytesLittleEndian(m \div 256, nb - 1)

\* the nb low-order bytes of m >= 0, most significant first
RECURSIVE UBytes(_, _)
UBytes(m, nb) == IF nb = 0 THEN <<>> ELSE Append(UBytes(m \div 256, nb - 1), m % 256)

Complement(bs) == [i \in 1..Len(bs) |-> 255 - bs[i]]

\* two's complement of n in nb bytes: n modulo 2^(8 nb)
IntBytes(n, nb) == IF n >= 0 THEN UBytes(n, nb) ELSE Complement(UBytes(-n - 1, nb))

\* bs read as an unsigned integer fits the model's integers (< 2^31)
FitsModel(bs) ==
    /\ \A i \in 1..Len(bs) : i <= Len(bs) - 4 => bs[i] = 0
    /\ Len(bs) >= 4 => bs[Len(bs) - 3] < 128

RECURSIVE UValue(_)
UValue(bs) == IF bs = <<>> THEN 0 ELSE 256 * UValue(SubSeq(bs, 1, Len(bs) - 1)) + bs[Len(bs)]

\* the integer a kind's load decodes from bs; "huge" when outside the model
IntValue(kind, bs) ==
    IF kind \in SignedKinds /\ bs[1] >= 128
    THEN IF FitsModel(Complement(bs))
         THEN [fits |-> TRUE, n |-> -UValue(Complement(bs)) - 1]
         ELSE [fits |-> FALSE, n |-> 0]
    ELSE IF FitsModel(bs)
         THEN [fits |-> TRUE, n |-> UValue(bs)]
         ELSE [fits |-> FALSE, n |-> 0]

\* the len low-order bits of m >= 0, most significant first
RECURSIVE UBits(_, _)
UBits(m, len) == IF len = 0 THEN <<>> ELSE Append(UBits(m \div 2, len - 1), m % 2)

RECURSIVE BitsValue(_)
BitsValue(bits) ==
    IF bits = <<>> THEN 0 ELSE 2 * BitsValue(SubSeq(bits, 1, Len(bits) - 1)) + bits[Len(bits)]

Zeros(len) == [i \in 1..len |-> 0]

BitsToBytes(bits) == [i \in 1..(Len(bits) \div 8) |-> BitsValue(SubSeq(bits, 8 * i - 7, 8 * i))]

BytesToBits(bs) == [i \in 1..(8 * Len(bs)) |-> (bs[(i + 7) \div 8] \div Pow2(7 - ((i - 1) % 8))) % 2]

FloatExpBits(kind) == IF kind = "Float32" THEN 8 ELSE 11
FloatFracBits(kind) == IF kind = "Float32" THEN 23 ELSE 52
FloatBias(kind) == Pow2(FloatExpBits(kind) - 1) - 1

\* IEEE 754 binary32/binary64 of the integer n, round to nearest, ties to even
FloatBytes(kind, n) ==
    LET eb == FloatExpBits(kind)
        fb == FloatFracBits(kind)
        m == IF n < 0 THEN -n ELSE n
        e == Log2(m)
        sh == e - fb
        q == m \div Pow2(sh)
        r == m % Pow2(sh)
        up == 2 * r > Pow2(sh) \/ (2 * r = Pow2(sh) /\ q % 2 = 1)
        q1 == IF up THEN q + 1 ELSE q
        carry == q1 = Pow2(fb + 1)
        sign == IF n < 0 THEN <<1>> ELSE <<0>>
    IN  IF n = 0 THEN Zeros((1 + eb + fb) \div 8)
        ELSE IF e <= fb
        THEN BitsToBytes(sign \o UBits(e + FloatBias(kind), eb)
                              \o UBits(m - Pow2(e), e) \o Zeros(fb - e))
        ELSE IF carry
        THEN BitsToBytes(sign \o UBits(e + 1 + FloatBias(kind), eb) \o Zeros(fb))
        ELSE BitsToBytes(sign \o UBits(e + FloatBias(kind), eb) \o UBits(q1 - Pow2(fb), fb))

\* bytes of NaN, which ToNumber gives for a string that is no numeral
NaNBytes(kind) ==
    BitsToBytes(<<0>> \o [i \in 1..FloatExpBits(kind) |-> 1]
                      \o <<1>> \o Zeros(FloatFracBits(kind) - 1))

\* the Number a float load decodes from bs
FloatValue(kind, bs) ==
    LET eb == FloatExpBits(kind)
        fb == FloatFracBits(kind)
        bits == BytesToBits(bs)
        neg == bits[1] = 1
        E == BitsValue(SubSeq(bits, 2, 1 + eb))
        frac == SubSeq(bits, 2 + eb, 1 + eb + fb)
        e == E - FloatBias(kind)
        m == IF e <= fb
             THEN Pow2(e) + BitsValue(SubSeq(frac, 1, e))
             ELSE (Pow2(fb) + BitsValue(frac)) * Pow2(e - fb)
    IN  IF E = 0 /\ frac = Zeros(fb) THEN Num(0)
        ELSE IF E = 0 \/ e < 0 \/ e > 30 THEN NotInteger
        ELSE IF e < fb /\ SubSeq(frac, e + 1, fb) # Zeros(fb - e) THEN NotInteger
        ELSE Num(IF neg THEN -m ELSE m)

\* DataView.prototype.get<kind>(byteOffset) on a view of these bytes
ViewGet(kind, bytes, byteOffset) ==
    LET nb == KindBits(kind) \div 8
        bs == SubSeq(bytes, byteOffset + 1, byteOffset + nb)
        iv == IntValue(kind, bs)
    IN  IF byteOffset + nb > Len(bytes) THEN [err |-> "RangeError", ret |-> Undefined]
        ELSE IF kind \in FloatKinds THEN [err |-> "none", ret |-> FloatValue(kind, bs)]
        ELSE IF kind \in BigKinds
        THEN [err |-> "none", ret |-> IF iv.fits THEN Big(iv.n) ELSE BigOutOfRange]
        ELSE [err |-> "none", ret |-> IF iv.fits THEN Num(iv.n) ELSE NotInteger]

Splice(bytes, byteOffset, bs) ==
    [i \in 1..Len(bytes) |->
        IF i > byteOffset /\ i <= byteOffset + Len(bs) THEN bs[i - byteOffset] ELSE bytes[i]]

\* DataView.prototype.set<kind>(byteOffset, value): the value is converted
\* (ToNumber or ToBigInt, which throw on the other numeric type) before the
\* range of the offset is checked
ViewSet(kind, bytes, byteOffset, value) ==
    LET nb == KindBits(kind) \div 8
        nan == value.tag \in {"string", "undefined"} \/ value.s # ""
        bs == IF kind \in FloatKinds
              THEN IF nan THEN NaNBytes(kind) ELSE FloatBytes(kind, value.n)
              ELSE IF nan THEN IntBytes(0, nb) ELSE IntBytes(value.n, nb)
    IN  IF kind \in BigKinds /\ value.tag = "number"
        THEN [err |-> "TypeError", bytes |-> bytes]
        ELSE IF kind \in BigKinds /\ value.tag # "bigint"
        THEN [err |-> "SyntaxError", bytes |-> bytes]
        ELSE IF kind \notin BigKinds /\ value.tag = "bigint"
        THEN [err |-> "TypeError", bytes |-> bytes]
        ELSE IF byteOffset + nb > Len(bytes)
        THEN [err |-> "RangeError", bytes |-> bytes]
        ELSE [err |-> "none", bytes |-> Splice(bytes, byteOffset, bs)]

----------------------------------------------------------------------------
(* The heap.  Objects are named; Proto is each object's prototype.         *)
(*   P         a class prototype (X.prototype in the tests)                *)
(*   D, E      prototypes of two subclasses of that class                  *)
(*   x, d      an instance of the class, an instance of the first subclass *)
(*   o1, o2    plain objects ({} literals)                                 *)

Objects == {"P", "D", "E", "x", "d", "o1", "o2"}

Proto == [o \in Objects |->
            CASE o \in {"D", "E", "x"} -> "P"
              [] o = "d" -> "D"
              [] OTHER -> "null"]

\* the first object on o's prototype chain that has the slot as own property
RECURSIVE Holder(_, _)
Holder(slot, o) ==
    IF o = "null" THEN "null"
    ELSE IF slot[o].own THEN o
    ELSE Holder(slot, Proto[o])

\* the first object on o's prototype chain with an own accessor property k
RECURSIVE AccessorHolder(_, _, _)
AccessorHolder(acc, o, k) ==
    IF o = "null" THEN "null"
    ELSE IF k \in acc[o].get THEN o
    ELSE AccessorHolder(acc, Proto[o], k)

NoFields == [k \in {} |-> 0]

Heap == [meta |-> meta, byteLength |-> byteLength, data |-> data,
         accessors |-> accessors, regions |-> regions]

\* the heap in which no library call has been made
EmptyHeap ==
    [meta |-> [o \in Objects |-> [own |-> FALSE, fields |-> NoFields]],
     byteLength |-> [o \in Objects |-> [own |-> FALSE, n |-> 0]],
     data |-> [o \in Objects |-> [own |-> FALSE, view |-> 0, given |-> 0]],
     accessors |-> [o \in Objects |-> [get |-> {}, set |-> {}]],
     regions |-> <<>>]

\* an outcome of a call: the heap it leaves, the error it throws, what it returns
Outcome(h, err, ret, view) == [h |-> h, err |-> err, ret |-> ret, view |-> view]

\* keys every object literal inherits from Object.prototype: `k in {}` is true
\* of them, and {}[k] is then a function, which has no byteOffset and no type
InheritedKeys == {"constructor"}

----------------------------------------------------------------------------
(* PropertyMetadata and its validators (types.ts).                         *)

Prop(k, type, check, writable, private) ==
    [k |-> k, type |-> type, check |-> check, writable |-> writable, private |-> private]

\* check(value) throws: if(height <= 0) throw ..., if(color === "glowing") throw ...
Rejects(check, value) ==
    CASE check = "none" -> FALSE
      [] check = "positive" ->
            value.tag \in {"number", "bigint"} /\ value.s = "" /\ value.n <= 0
      [] check = "notGlowing" -> value = Str("glowing")

----------------------------------------------------------------------------
(* declare                                                                 *)

\* a destructuring that takes every property for a public one
isPrivateNever(propMeta) == FALSE

\* const { writable = true, private: isPrivate = false } = propMeta
isPrivate(propMeta) == propMeta.private

\* a destructuring that takes every property for a writable one
writableAlways(propMeta) == TRUE

writable(propMeta) == propMeta.writable

\* one turn of the loop of declare, on the state the loop carries: the fields
\* of the _meta object, prototype[_byteLength], prototype's own accessors
declareStep(st, propMeta) ==
    LET byteOffset == st.byteLength
        desc == [type |-> propMeta.type, check |-> propMeta.check,
                 writable |-> propMeta.writable, private |-> propMeta.private,
                 byteOffset |-> byteOffset]
        fields1 == (propMeta.k :> desc) @@ st.fields
    IN  IF st.err # "none" THEN st
        ELSE IF ~isPrivate(propMeta) /\ propMeta.k \in st.get
        \* Object.defineProperty on an own accessor, which is not configurable
        THEN [st EXCEPT !.fields = fields1, !.err = "Redefine"]
        ELSE [fields |-> fields1,
              byteLength |-> st.byteLength + getByteStride(propMeta.type),
              ownByteLength |-> TRUE,
              get |-> IF isPrivate(propMeta) THEN st.get ELSE st.get \cup {propMeta.k},
              set |-> IF isPrivate(propMeta) \/ ~writable(propMeta)
                      THEN st.set ELSE st.set \cup {propMeta.k},
              err |-> "none"]

RECURSIVE declareLoop(_, _)
declareLoop(st, objMeta) ==
    IF objMeta = <<>> THEN st
    ELSE declareLoop(declareStep(st, Head(objMeta)), Tail(objMeta))

declare(h, prototype, objMeta) ==
    LET mh0 == Holder(h.meta, prototype)
        mh == IF mh0 = "null" THEN prototype ELSE mh0
        bh == Holder(h.byteLength, prototype)
        st0 == [fields |-> h.meta[mh].fields,
                byteLength |-> IF bh = "null" THEN 0 ELSE h.byteLength[bh].n,
                ownByteLength |-> bh \in {"null", prototype},
                get |-> h.accessors[prototype].get,
                set |-> h.accessors[prototype].set,
                err |-> "none"]
        st == declareLoop(st0, objMeta)
        h1 == [h EXCEPT
                 !.meta[mh] = [own |-> TRUE, fields |-> st.fields],
                 !.byteLength[prototype] =
                     IF st.ownByteLength THEN [own |-> TRUE, n |-> st.byteLength] ELSE @,
                 !.accessors[prototype] = [get |-> st.get, set |-> st.set]]
    IN  Outcome(h1, st.err, Undefined, 0)

----------------------------------------------------------------------------
(* allocateData, share, accept                                             *)

\* an allocateData that sizes the buffer by the instance, whatever the
\* target prototype
allocateDataOwnWidth(h, instance, targetPrototype) ==
    LET bh == Holder(h.byteLength, instance)
        sab == Zeros(IF bh = "null" THEN 0 ELSE h.byteLength[bh].n)
        h1 == [h EXCEPT !.regions = Append(@, sab),
                        !.data[instance] =
                            [own |-> TRUE, view |-> Len(h.regions) + 1, given |-> 0]]
    IN  Outcome(h1, "none", Undefined, 0)

\* new SharedArrayBuffer(undefined) has length 0; a targetPrototype that is
\* no object but a Number has no property _byteLength
allocateData(h, instance, targetPrototype) ==
    LET bh == IF targetPrototype \in Objects
              THEN Holder(h.byteLength, targetPrototype) ELSE "null"
        sab == Zeros(IF bh = "null" THEN 0 ELSE h.byteLength[bh].n)
        h1 == [h EXCEPT !.regions = Append(@, sab),
                        !.data[instance] =
                            [own |-> TRUE, view |-> Len(h.regions) + 1, given |-> 0]]
    IN  Outcome(h1, "none", Undefined, 0)

\* a share that looks for _data among the instance's own properties only
shareOwn(h, instance) ==
    IF ~h.data[instance].own THEN Outcome(h, "NotAllocated", Undefined, 0)
    ELSE Outcome(h, "none", Undefined, h.data[instance].view)

share(h, instance) ==
    LET dh == Holder(h.data, instance)
    IN  IF dh = "null" THEN Outcome(h, "NotAllocated", Undefined, 0)
        ELSE Outcome(h, "none", Undefined, h.data[dh].view)

\* an accept that binds a copy of the bytes it is handed
acceptCopy(h, instance, view) ==
    Outcome([h EXCEPT !.regions = Append(@, h.regions[view]),
                      !.data[instance] =
                          [own |-> TRUE, view |-> Len(h.regions) + 1, given |-> view]],
            "none", Undefined, 0)

\* an accept that carries the bytes of the region the instance was bound to
\* over into the one it is handed
acceptMigrating(h, instance, view) ==
    LET old == IF h.data[instance].own THEN h.regions[h.data[instance].view] ELSE <<>>
        new == [n \in DOMAIN h.regions[view] |->
                  IF n <= Len(old) THEN old[n] ELSE h.regions[view][n]]
    IN  Outcome([h EXCEPT !.regions[view] = new,
                          !.data[instance] = [own |-> TRUE, view |-> view, given |-> view]],
                "none", Undefined, 0)

\* given records the DataView the caller handed over (history, not read by
\* the library)
accept(h, instance, view) ==
    Outcome([h EXCEPT !.data[instance] = [own |-> TRUE, view |-> view, given |-> view]],
            "none", Undefined, 0)

----------------------------------------------------------------------------
(* get, set, assign                                                        *)

get(h, instance, k) ==
    LET mh == Holder(h.meta, instance)
        dh == Holder(h.data, instance)
        desc == h.meta[mh].fields[k]
        bytes == h.regions[h.data[dh].view]
        index == ViewGet("Uint8", bytes, desc.byteOffset)
        read == ViewGet(desc.type.kind, bytes, desc.byteOffset)
    IN  IF mh = "null" THEN Outcome(h, "NoMeta", Undefined, 0)
        ELSE IF k \notin DOMAIN h.meta[mh].fields
        THEN IF k \notin InheritedKeys THEN Outcome(h, "NoDescriptor", Undefined, 0)
             ELSE IF dh = "null" THEN Outcome(h, "NoData", Undefined, 0)
             ELSE Outcome(h, "NotAFunction", Undefined, 0)
        ELSE IF dh = "null" THEN Outcome(h, "NoData", Undefined, 0)
        ELSE IF ~IsArray(desc.type) THEN Outcome(h, read.err, read.ret, 0)
        ELSE IF index.err # "none" THEN Outcome(h, index.err, Undefined, 0)
        ELSE IF index.ret.n + 1 > Len(desc.type.variants) THEN Outcome(h, "none", Undefined, 0)
        ELSE Outcome(h, "none", desc.type.variants[index.ret.n + 1], 0)

\* an indexOf that finds every value at the head
indexOfHead(variants, value) == 0

\* type.indexOf(value), from 0
RECURSIVE indexOf(_, _)
indexOf(variants, value) ==
    IF variants = <<>> THEN -1
    ELSE IF Head(variants) = value THEN 0
    ELSE LET rest == indexOf(Tail(variants), value)
         IN  IF rest = -1 THEN -1 ELSE rest + 1

\* a set that runs the check of the field before it writes
setChecked(h, instance, k, value) ==
    LET mh == Holder(h.meta, instance)
        dh == Holder(h.data, instance)
        desc == h.meta[mh].fields[k]
        view == h.data[dh].view
        bytes == h.regions[view]
        stored == IF IsArray(desc.type)
                  THEN ViewSet("Uint8", bytes, desc.byteOffset,
                               Num(indexOf(desc.type.variants, value)))
                  ELSE ViewSet(desc.type.kind, bytes, desc.byteOffset, value)
    IN  IF mh = "null" THEN Outcome(h, "NoMeta", Undefined, 0)
        ELSE IF k \notin DOMAIN h.meta[mh].fields
        THEN IF k \notin InheritedKeys THEN Outcome(h, "NoDescriptor", Undefined, 0)
             ELSE IF dh = "null" THEN Outcome(h, "NoData", Undefined, 0)
             ELSE Outcome(h, "NotAFunction", Undefined, 0)
        ELSE IF Rejects(desc.check, value)
        THEN Outcome(h, "ValidationError", Undefined, 0)
        ELSE IF IsArray(desc.type) /\ indexOf(desc.type.variants, value) = -1
        THEN Outcome(h, "InvalidVariant", Undefined, 0)
        ELSE IF dh = "null" THEN Outcome(h, "NoData", Undefined, 0)
        ELSE Outcome([h EXCEPT !.regions[view] = stored.bytes], stored.err, Undefined, 0)

set(h, instance, k, value) ==
    LET mh == Holder(h.meta, instance)
        dh == Holder(h.data, instance)
        desc == h.meta[mh].fields[k]
        view == h.data[dh].view
        bytes == h.regions[view]
        stored == IF IsArray(desc.type)
                  THEN ViewSet("Uint8", bytes, desc.byteOffset,
                               Num(indexOf(desc.type.variants, value)))
                  ELSE ViewSet(desc.type.kind, bytes, desc.byteOffset, value)
    IN  IF mh = "null" THEN Outcome(h, "NoMeta", Undefined, 0)
        ELSE IF k \notin DOMAIN h.meta[mh].fields
        THEN IF k \notin InheritedKeys THEN Outcome(h, "NoDescriptor", Undefined, 0)
             ELSE IF dh = "null" THEN Outcome(h, "NoData", Undefined, 0)
             ELSE Outcome(h, "NotAFunction", Undefined, 0)
        ELSE IF IsArray(desc.type) /\ indexOf(desc.type.variants, value) = -1
        THEN Outcome(h, "InvalidVariant", Undefined, 0)
        ELSE IF dh = "null" THEN Outcome(h, "NoData", Undefined, 0)
        ELSE Outcome([h EXCEPT !.regions[view] = stored.bytes], stored.err, Undefined, 0)

\* a check that lets every value pass
checkNever(h, instance, k, value) == FALSE

\* the check of field k, when the _meta object has one for it
checkRejects(h, instance, k, value) ==
    LET fields == h.meta[Holder(h.meta, instance)].fields
    IN  k \in DOMAIN fields /\ Rejects(fields[k].check, value)

\* a membership test that finds every key
inMetaAlways(h, instance, k) == TRUE

\* k in instance[_meta]
inMeta(h, instance, k) ==
    k \in DOMAIN h.meta[Holder(h.meta, instance)].fields \cup InheritedKeys

\* a transactional assign: it runs the check of every entry before it
\* writes the first
RECURSIVE assignChecksFirst(_, _, _)
assignChecksFirst(h, instance, values) ==
    LET k == Head(values).k
        written == set(h, instance, k, Head(values).value)
    IN  IF values = <<>> THEN Outcome(h, "none", Undefined, 0)
        ELSE IF Holder(h.meta, instance) = "null" THEN Outcome(h, "NoMeta", Undefined, 0)
        ELSE IF \E n \in 1..Len(values) :
                   /\ inMeta(h, instance, values[n].k)
                   /\ checkRejects(h, instance, values[n].k, values[n].value)
        THEN Outcome(h, "ValidationError", Undefined, 0)
        ELSE IF ~inMeta(h, instance, k) THEN assignChecksFirst(h, instance, Tail(values))
        ELSE IF written.err # "none" THEN written
        ELSE assignChecksFirst(written.h, instance, Tail(values))

\* values is the sequence of the [k, value] entries in for-in order
RECURSIVE assign(_, _, _)
assign(h, instance, values) ==
    LET mh == Holder(h.meta, instance)
        k == Head(values).k
        value == Head(values).value
        written == set(h, instance, k, value)
    IN  IF values = <<>> THEN Outcome(h, "none", Undefined, 0)
        ELSE IF mh = "null" THEN Outcome(h, "NoMeta", Undefined, 0)
        ELSE IF ~inMeta(h, instance, k)
        THEN assign(h, instance, Tail(values))
        ELSE IF checkRejects(h, instance, k, value)
        THEN Outcome(h, "ValidationError", Undefined, 0)
        ELSE IF written.err # "none" THEN written
        ELSE assign(written.h, instance, Tail(values))

----------------------------------------------------------------------------
(* prepareObject, manifestObject                                           *)

prepareObject(h, object, metadata) ==
    LET declared == declare(h, object, metadata)
    IN  IF declared.err # "none" THEN declared
        ELSE allocateData(declared.h, object, object)

\* a manifestObject that ends as prepareObject does, allocating a buffer
\* instead of accepting the one it was handed
manifestObjectAllocating(h, object, view, metadata) ==
    LET declared == declare(h, object, metadata)
    IN  IF declared.err # "none" THEN declared
        ELSE allocateData(declared.h, object, object)

manifestObject(h, object, view, metadata) ==
    LET declared == declare(h, object, metadata)
    IN  IF declared.err # "none" THEN declared
        ELSE accept(declared.h, object, view)

----------------------------------------------------------------------------
(* The accessor properties declare installs (threadables.ts, lines 29-35). *)

\* instance.k
ambientGet(h, instance, k) ==
    IF AccessorHolder(h.accessors, instance, k) = "null"
    THEN Outcome(h, "none", Undefined, 0)
    ELSE get(h, instance, k)

\* instance.k = value; strict is whether the assignment is strict mode code
ambientSet(h, instance, k, value, strict) ==
    LET ah == AccessorHolder(h.accessors, instance, k)
    IN  IF ah = "null" THEN Outcome(h, "none", Undefined, 0)
        ELSE IF k \notin h.accessors[ah].set
        THEN Outcome(h, IF strict THEN "NoSetter" ELSE "none", Undefined, 0)
        ELSE IF checkRejects(h, instance, k, value)
        THEN Outcome(h, "ValidationError", Undefined, 0)
        ELSE set(h, instance, k, value)

----------------------------------------------------------------------------
(* Bounds and inputs.                                                      *)

MaxDeclares == 3
MaxRegions == 2
\* the regions of the sharing specification
MaxShared == 1

\* a Uint8 property, as the sharing test declares, and an enum property
speedColor ==
    <<Prop("speed", Numeric("Uint8"), "none", TRUE, FALSE),
      Prop("color", Enum(<<Str("red"), Str("green"), Str("blue")>>), "none", TRUE, FALSE)>>

\* personMetadata of the README: the readonly eyeColor and the height have
\* a check, opinion is private
person ==
    <<Prop("eyeColor",
           Enum(<<Str("black"), Str("brown"), Str("blue"), Str("green"), Str("glowing")>>),
           "notGlowing", FALSE, FALSE),
      Prop("opinion", Enum(<<Str("yes"), Str("no")>>), "none", TRUE, TRUE),
      Prop("height", Numeric("Float32"), "positive", TRUE, FALSE)>>

\* personMetadata of the tests of prepareObject and manifestObject
drinker ==
    <<Prop("favoriteDrink", Enum(<<Str("water"), Str("tea"), Str("coffee")>>),
           "none", TRUE, FALSE),
      Prop("preferredTemperature", Numeric("Float32"), "none", TRUE, FALSE)>>

\* { x: { type: 'Float32' } } of the worker test
xFloat32 == <<Prop("x", Numeric("Float32"), "none", TRUE, FALSE)>>

KeysOf(objMeta) == {objMeta[i].k : i \in 1..Len(objMeta)}

\* the values the calls write to a key
ValuesFor(k) ==
    CASE k = "speed" -> {Num(987654321)}
      [] k = "color" -> {Str("green")}
      [] k = "height" -> {Num(5), Num(-100)}
      [] k = "eyeColor" -> {Str("brown"), Str("glowing"), Str("x")}
      [] k = "opinion" -> {Str("no")}
      [] k = "favoriteDrink" -> {Str("tea")}
      [] k = "preferredTemperature" -> {Num(50)}
      [] k = "x" -> {Num(50)}
      [] OTHER -> {Str("x")}

Entry(k, value) == [k |-> k, value |-> value]

\* the value maps of one entry over these keys
Singles(keys) == UNION {{<<Entry(k, v)>> : v \in ValuesFor(k)} : k \in keys}

\* the value maps of two entries over these keys, in both orders
Pairs(keys) ==
    {vs \in {s1 \o s2 : s1 \in Singles(keys), s2 \in Singles(keys)} : vs[1].k # vs[2].k}

\* the value maps of three entries over these keys, in every order
Triples(keys) ==
    {vs \in {p \o s3 : p \in Pairs(keys), s3 \in Singles(keys)} :
        vs[3].k \notin {vs[1].k, vs[2].k}}

----------------------------------------------------------------------------
(* The calls.                                                              *)

Call(op, obj, k, value, values) ==
    [op |-> op, obj |-> obj, k |-> k, value |-> value, values |-> values]

\* the execution contexts: the thread that owns o1 and the worker that owns
\* o2 (threadables.test.ts, lines 262-285)
Contexts == {"o1", "o2"}

\* a context that is in no store
Idle == [k |-> "", value |-> Undefined, view |-> 0, bytes |-> <<>>, todo |-> {}]

NoWriting == [c \in Contexts |-> Idle]

\* no property was set yet
NeverSet == [k \in KeysOf(drinker) |-> [value |-> Undefined, amid |-> FALSE]]

\* a call that runs to its end in one step, in a context that is in no store
Returns(out, call) ==
    /\ UNCHANGED <<writing, lastSet>>
    /\ meta' = out.h.meta
    /\ byteLength' = out.h.byteLength
    /\ data' = out.h.data
    /\ accessors' = out.h.accessors
    /\ regions' = out.h.regions
    /\ last' = [call |-> call, err |-> out.err, ret |-> out.ret, view |-> out.view]

NoCall == Call("none", "null", "", Undefined, <<>>)

Init ==
    /\ meta = EmptyHeap.meta
    /\ byteLength = EmptyHeap.byteLength
    /\ data = EmptyHeap.data
    /\ accessors = EmptyHeap.accessors
    /\ regions = EmptyHeap.regions
    /\ nDeclares = 0
    /\ last = [call |-> NoCall, err |-> "none", ret |-> Undefined, view |-> 0]
    /\ writing = NoWriting
    /\ lastSet = NeverSet

Declare(prototype, objMeta) ==
    /\ nDeclares < MaxDeclares
    /\ nDeclares' = nDeclares + 1
    /\ Returns(declare(Heap, prototype, objMeta),
               Call("declare", prototype, "", Undefined, objMeta))

AllocateData(instance, targetPrototype) ==
    /\ Len(regions) < MaxRegions
    /\ UNCHANGED nDeclares
    /\ Returns(allocateData(Heap, instance, targetPrototype),
               Call("allocateData", instance, targetPrototype, Undefined, <<>>))

PrepareObject(object, metadata) ==
    /\ nDeclares < MaxDeclares
    /\ Len(regions) < MaxRegions
    /\ nDeclares' = nDeclares + 1
    /\ Returns(prepareObject(Heap, object, metadata),
               Call("prepareObject", object, "", Undefined, metadata))

\* the {} that manifestObject makes: an object nothing was done to yet
Pristine(o) ==
    /\ Proto[o] = "null"
    /\ ~meta[o].own /\ ~byteLength[o].own /\ ~data[o].own
    /\ accessors[o].get = {}
    /\ \A p \in Objects : Proto[p] # o

\* prepareObject(fieldSpecs), the call the README (line 32) and the tests
\* (threadables.test.ts, lines 233, 251, 277) make.  The parameters are
\* (object, metadata): the literal of field specifications is the object, and
\* metadata is undefined, over which `for (k in objMeta)` makes no turn.  The
\* call record keeps the specifications the literal holds.
PrepareObjectOf(object, fieldSpecs) ==
    /\ Pristine(object)
    /\ nDeclares < MaxDeclares
    /\ Len(regions) < MaxRegions
    /\ nDeclares' = nDeclares + 1
    /\ Returns(prepareObject(Heap, object, <<>>),
               Call("prepareObject", object, "fieldSpecs", Undefined, fieldSpecs))

ManifestObject(object, view, metadata) ==
    /\ Pristine(object)
    /\ nDeclares < MaxDeclares
    /\ nDeclares' = nDeclares + 1
    /\ Returns(manifestObject(Heap, object, view, metadata),
               Call("manifestObject", object, "", Num(view), metadata))

Share(instance) ==
    /\ UNCHANGED nDeclares
    /\ Returns(share(Heap, instance), Call("share", instance, "", Undefined, <<>>))

Accept(instance, view) ==
    /\ UNCHANGED nDeclares
    /\ Returns(accept(Heap, instance, view),
               Call("accept", instance, "", Num(view), <<>>))

Get(instance, k) ==
    /\ UNCHANGED nDeclares
    /\ Returns(get(Heap, instance, k), Call("get", instance, k, Undefined, <<>>))

Set(instance, k, value) ==
    /\ UNCHANGED nDeclares
    /\ Returns(set(Heap, instance, k, value), Call("set", instance, k, value, <<>>))

Assign(instance, values) ==
    /\ UNCHANGED nDeclares
    /\ Returns(assign(Heap, instance, values),
               Call("assign", instance, "", Undefined, values))

AmbientGet(instance, k) ==
    /\ UNCHANGED nDeclares
    /\ Returns(ambientGet(Heap, instance, k),
               Call("ambientGet", instance, k, Undefined, <<>>))

AmbientSet(instance, k, value, strict) ==
    /\ UNCHANGED nDeclares
    /\ Returns(ambientSet(Heap, instance, k, value, strict),
               Call("ambientSet", instance, k, value, <<>>))

----------------------------------------------------------------------------
(* set from several contexts.  The buffer is a SharedArrayBuffer           *)
(* (threadables.ts, line 46) and set stores into it through a DataView     *)
(* (lines 75 and 77), an access that is not atomic: a store of several     *)
(* bytes reaches the buffer byte by byte, in no fixed order, and the       *)
(* stores and loads of the other contexts fall in between.                 *)

\* the bytes one store writes: setUint8 for a list of variants, set<kind>
\* for a numeric kind
storedBytes(type) == IF IsArray(type) THEN 1 ELSE KindBits(type.kind) \div 8

\* a store that writes back the whole buffer, as it was read, with the new
\* bytes in it
storeRangeWholeBuffer(h, instance, k) ==
    DOMAIN h.regions[h.data[Holder(h.data, instance)].view]

\* the places of the buffer that the store of set(instance, k, ...) writes
storeRange(h, instance, k) ==
    LET desc == h.meta[Holder(h.meta, instance)].fields[k]
    IN  {desc.byteOffset + n : n \in 1..storedBytes(desc.type)}

\* what lastSet holds of a property when a set of it began while another
\* context was in a store of it: the two stores race
Raced == [tag |-> "raced", n |-> 0, s |-> ""]

\* set(instance, k, value) in the context of the instance, up to the store:
\* what set throws, it throws here; otherwise the store begins
BeginSet(instance, k, value) ==
    LET out == set(Heap, instance, k, value)
        view == data[Holder(data, instance)].view
        races == \E c \in Contexts \ {instance} : writing[c].k = k
        \* the set begins while another context is in the middle of a store
        amid == \E c \in Contexts \ {instance} : writing[c] # Idle
    IN  /\ writing[instance] = Idle
        /\ UNCHANGED <<meta, byteLength, data, accessors, regions, nDeclares>>
        /\ IF out.err # "none"
           THEN /\ UNCHANGED <<writing, lastSet>>
                /\ last' = [call |-> Call("set", instance, k, value, <<>>),
                            err |-> out.err, ret |-> Undefined, view |-> 0]
           ELSE /\ writing' = [writing EXCEPT ![instance] =
                                 [k |-> k, value |-> value, view |-> view,
                                  bytes |-> out.h.regions[view],
                                  todo |-> storeRange(Heap, instance, k)]]
                /\ lastSet' = [lastSet EXCEPT ![k] =
                                 [value |-> IF races THEN Raced ELSE value, amid |-> amid]]
                /\ UNCHANGED last

\* one byte of the store of context c reaches the buffer; with the last of
\* them set returns
StoreByte(c, n) ==
    /\ n \in writing[c].todo
    /\ regions' = [regions EXCEPT ![writing[c].view][n] = writing[c].bytes[n]]
    /\ IF writing[c].todo = {n}
       THEN /\ writing' = [writing EXCEPT ![c] = Idle]
            /\ last' = [call |-> Call("set", c, writing[c].k, writing[c].value, <<>>),
                        err |-> "none", ret |-> Undefined, view |-> 0]
       ELSE /\ writing' = [writing EXCEPT ![c].todo = @ \ {n}]
            /\ UNCHANGED last
    /\ UNCHANGED <<meta, byteLength, data, accessors, nDeclares, lastSet>>

----------------------------------------------------------------------------
(* Spec: binding and sharing.  The class prototype P and the plain object  *)
(* o1 are compiled from the scenario's metadata.  As in the tests, the     *)
(* instance x of the class allocates its data, P accepts a shared region   *)
(* on behalf of its instances, and o1 does either; all three share, read   *)
(* and write.                                                              *)

Declared(o) == IF Holder(meta, o) = "null" THEN {} ELSE DOMAIN meta[Holder(meta, o)].fields

Callers == {"P", "x", "o1"}
Shapes == {"P", "o1"}
Allocators == {"x", "o1"}
Acceptors == {"P", "o1"}
ShareKeys == {"speed", "color"}
ShareMaps == {<<>>} \cup Singles(ShareKeys)

Next ==
    \/ \E o \in Shapes : Declared(o) = {} /\ Declare(o, speedColor)
    \/ \E o \in Allocators, t \in Callers :
          Len(regions) < MaxShared /\ t \in {o, Proto[o]} /\ AllocateData(o, t)
    \/ \E o \in Shapes :
          Len(regions) < MaxShared /\ Declared(o) = {} /\ PrepareObject(o, speedColor)
    \/ \E o \in Shapes, v \in 1..Len(regions) : ManifestObject(o, v, speedColor)
    \/ \E o \in Callers : Share(o)
    \/ \E o \in Acceptors, v \in 1..Len(regions) : Accept(o, v)
    \/ \E o \in Callers, k \in ShareKeys : Get(o, k)
    \/ \E o \in Callers, k \in ShareKeys : \E v \in ValuesFor(k) : Set(o, k, v)
    \/ \E o \in Callers, vs \in ShareMaps : Assign(o, vs)
    \/ \E o \in Callers, k \in ShareKeys : AmbientGet(o, k)
    \/ \E o \in Callers, k \in ShareKeys :
          \E v \in ValuesFor(k) : AmbientSet(o, k, v, TRUE)

Spec == Init /\ [][Next]_vars

----------------------------------------------------------------------------
(* SpecAccess: the validated accessor surface.  The class prototype P is   *)
(* compiled from the README's metadata; its instance x allocates its data  *)
(* once, as the README's constructor does, and is read and written.        *)

AccessKeys == KeysOf(person) \cup {"nickname"} \cup InheritedKeys
AccessMaps ==
    {<<>>} \cup Singles(AccessKeys) \cup Pairs({"height", "eyeColor", "nickname"})
           \cup Triples(KeysOf(person))

NextAccess ==
    \/ Declared("P") = {} /\ Declare("P", person)
    \/ ~data["x"].own /\ AllocateData("x", "P")
    \/ \E k \in AccessKeys : Get("x", k)
    \/ \E k \in AccessKeys : \E v \in ValuesFor(k) : Set("x", k, v)
    \/ \E vs \in AccessMaps : Assign("x", vs)
    \/ \E k \in AccessKeys : AmbientGet("x", k)
    \/ \E k \in AccessKeys, strict \in BOOLEAN :
          \E v \in ValuesFor(k) : AmbientSet("x", k, v, strict)

SpecAccess == Init /\ [][NextAccess]_vars

----------------------------------------------------------------------------
(* SpecLayout: compiling layouts.  The class prototype P and the           *)
(* prototypes D and E of its subclasses are compiled, in any order and     *)
(* repeatedly, from the two metadata objects.                              *)

LayoutShapes == {"P", "D", "E"}

NextLayout ==
    \E o \in LayoutShapes, m \in {speedColor, person} : Declare(o, m)

SpecLayout == Init /\ [][NextLayout]_vars

----------------------------------------------------------------------------
(* SpecCodec: one property of every type.  The initial states are those of *)
(* the tests' testThreadableType: declare({}, {value: {type}}) and         *)
(* allocateData on the result; the property is then written and read.      *)

abc == <<Str("a"), Str("b"), Str("c")>>

CodecTypes == {Numeric(kind) : kind \in NumericKinds} \cup {Enum(abc)}

CodecNumbers ==
    {Num(n) : n \in {42, 200, 255, 256, 65535, 65536, 16777217, 987654321,
                     -1, -100, -129, -32769, -987654321}}

CodecBigInts == {Big(n) : n \in {10, 1000000, -1}}

CodecStrings == {Str("a"), Str("b"), Str("c"), Str("x")}

\* the model's integers end at 2^31 - 1: a negative value, which an unsigned
\* kind of 32 or 64 bits stores as a value from 2^31 on, is left out
CodecValues(type) ==
    IF IsArray(type) THEN CodecStrings \cup {Num(42)}
    ELSE {v \in CodecNumbers \cup CodecBigInts :
            type.kind \in {"Uint32", "BigUint64"} => v.n >= 0}

valueOf(type) == <<Prop("value", type, "none", TRUE, FALSE)>>

InitCodec ==
    \E type \in CodecTypes :
        LET h == allocateData(declare(EmptyHeap, "o1", valueOf(type)).h, "o1", "o1").h
        IN  /\ meta = h.meta
            /\ byteLength = h.byteLength
            /\ data = h.data
            /\ accessors = h.accessors
            /\ regions = h.regions
            /\ nDeclares = 1
            /\ last = [call |-> NoCall, err |-> "none", ret |-> Undefined, view |-> 0]
            /\ writing = NoWriting
            /\ lastSet = NeverSet

TypeOfValue == meta["o1"].fields["value"].type

NextCodec ==
    \/ \E v \in CodecValues(TypeOfValue) : Set("o1", "value", v)
    \/ \E v \in CodecValues(TypeOfValue) : Assign("o1", <<Entry("value", v)>>)
    \/ \E v \in CodecValues(TypeOfValue), strict \in BOOLEAN :
          AmbientSet("o1", "value", v, strict)
    \/ Get("o1", "value")
    \/ AmbientGet("o1", "value")

SpecCodec == InitCodec /\ [][NextCodec]_vars

----------------------------------------------------------------------------
(* SpecObjects: plain objects, as the tests of prepareObject and           *)
(* manifestObject use them.  The originator o1 is prepared from one of the *)
(* two metadata objects of the tests; the receiver o2 is compiled from     *)
(* personMetadata and bound to a region by manifestObject or by declare    *)
(* and accept.  Both allocate anew, accept, share, read and write.         *)

\* a Number given to allocateData as targetPrototype, and its value
byteCount == "byteCount"
ByteCount == 12

Plain == {"o1", "o2"}
ObjectKeys == KeysOf(drinker) \cup KeysOf(xFloat32)
(* The properties the plain-object tests write and then read back from the *)
(* receiving side.                                                         *)
WrittenKeys == {"favoriteDrink", "x"}

NextObjects ==
    \/ \E m \in {drinker, xFloat32} : Declared("o1") = {} /\ PrepareObject("o1", m)
    \/ \E m \in {drinker, xFloat32} : PrepareObjectOf("o1", m)
    \/ \E v \in 1..Len(regions) : ManifestObject("o2", v, drinker)
    \/ Declared("o2") = {} /\ Declare("o2", drinker)
    \/ \E o \in Plain, t \in {"o1", "o2", byteCount} : AllocateData(o, t)
    \/ \E o \in Plain, v \in 1..Len(regions) : Accept(o, v)
    \/ \E o \in Plain : Share(o)
    \/ \E o \in Plain, k \in ObjectKeys : Get(o, k)
    \/ \E o \in Plain, k \in WrittenKeys : \E v \in ValuesFor(k) : Set(o, k, v)

SpecObjects == Init /\ [][NextObjects]_vars

----------------------------------------------------------------------------
(* Two contexts on one region: o1 made by prepareObject, o2 by             *)
(* manifestObject in the worker, both of personMetadata.                   *)

\* the values the contexts set: two to each property
InterleavedValues(k) ==
    ValuesFor(k) \cup (IF k = "favoriteDrink" THEN {Str("coffee")} ELSE {Num(5)})

NextInterleaved ==
    \/ Declared("o1") = {} /\ PrepareObject("o1", drinker)
    \/ \E v \in 1..Len(regions) : ManifestObject("o2", v, drinker)
    \/ \E c \in Contexts, k \in KeysOf(drinker) :
          \E v \in InterleavedValues(k) : BeginSet(c, k, v)
    \/ \E c \in Contexts : \E n \in writing[c].todo : StoreByte(c, n)
    \/ \E c \in Contexts, k \in KeysOf(drinker) : writing[c] = Idle /\ Get(c, k)

SpecInterleaved == Init /\ [][NextInterleaved]_vars

----------------------------------------------------------------------------
(* What the properties below speak of.                                     *)

\* the layout instance o resolves: the fields of the _meta object on its chain
Fields(o) == IF Holder(meta, o) = "null" THEN NoFields ELSE meta[Holder(meta, o)].fields

\* the value of the kind that n is stored as: n itself when the kind
\* represents it, else the value of the kind's range congruent to n modulo
\* 2^width, and for Float32 the nearest single (ties to the even significand)
Reduce(kind, n) ==
    LET w == KindBits(kind)
        lo == IF kind \in SignedKinds THEN -Pow2(w - 1) ELSE 0
        a == IF n < 0 THEN -n ELSE n
        ulp == Pow2(Log2(a) - 23)
        q == a \div ulp
        r == a % ulp
        up == IF 2 * r < ulp THEN q ELSE IF 2 * r > ulp THEN q + 1 ELSE q + (q % 2)
    IN  IF kind = "Float32"
        THEN (IF a < Pow2(24) THEN n ELSE (IF n < 0 THEN -1 ELSE 1) * up * ulp)
        ELSE IF kind = "Float64" \/ w >= 32 THEN n
        ELSE ((n - lo) % Pow2(w)) + lo

\* what a read returns after value was written to a field of this type
Stored(type, value) ==
    IF IsArray(type) THEN value
    ELSE IF type.kind \in BigKinds THEN Big(Reduce(type.kind, value.n))
    ELSE Num(Reduce(type.kind, value.n))

\* i was bound by allocateData and j by accept of the region i shares
AcceptedFrom(j, i) ==
    /\ i # j
    /\ data[i].own /\ data[i].given = 0
    /\ data[j].own /\ data[j].given = data[i].view

SameLayout(i, j) == Fields(i) = Fields(j) /\ DOMAIN Fields(i) # {}

HasSetter(o, k) ==
    /\ AccessorHolder(accessors, o, k) # "null"
    /\ k \in accessors[AccessorHolder(accessors, o, k)].set

\* the step is a call through instance o that wrote value to field k
Wrote(o, k, value) ==
    LET c == last'.call
    IN  /\ last'.err = "none"
        /\ c.obj = o
        /\ \/ c.op = "set" /\ c.k = k /\ c.value = value
           \/ c.op = "ambientSet" /\ c.k = k /\ c.value = value /\ HasSetter(o, k)
           \/ c.op = "assign" /\ c.values = <<Entry(k, value)>>

\* the step is a call that names field k among what it writes
Names(k) ==
    LET c == last'.call
    IN  \/ c.op \in {"set", "ambientSet"} /\ c.k = k
        \/ c.op = "assign" /\ \E n \in 1..Len(c.values) : c.values[n].k = k

----------------------------------------------------------------------------
(* C1: cross-binding visibility.  Let instances i and j resolve the same   *)
(* layout, i bound by allocateData and j bound by accept to the region i   *)
(* shares.  Then a read of any field through i and through j gives the     *)
(* same result; after a write of value v to field f through either of      *)
(* them, get and the ambient getter through both return what f's type      *)
(* stores of v; and a call that does not name f among what it writes       *)
(* leaves what they read of f as it was.                                   *)

C1_CrossBinding ==
    [][\A j \in {o \in Callers : data'[o].given # 0}, i \in Callers :
         (AcceptedFrom(j, i) /\ SameLayout(i, j))' =>
            \A f \in DOMAIN Fields(i)' :
               LET readI == get(Heap', i, f)
                   readJ == get(Heap', j, f)
                   type == Fields(i)'[f].type
               IN  /\ readI.err = readJ.err
                   /\ readI.ret = readJ.ret
                   /\ \A w \in {i, j}, v \in ValuesFor(f) :
                         Wrote(w, f, v) =>
                            /\ readI.err = "none"
                            /\ readI.ret = Stored(type, v)
                            /\ ambientGet(Heap', i, f).ret = Stored(type, v)
                            /\ ambientGet(Heap', j, f).ret = Stored(type, v)
                   /\ (AcceptedFrom(j, i) /\ SameLayout(i, j) /\ ~Names(f)) =>
                         readI.ret = get(Heap, i, f).ret
      ]_vars

\* green was written through the accepting prototype P and is read through
\* the allocating instance x
C1_Witness ==
    /\ AcceptedFrom("P", "x") /\ SameLayout("x", "P")
    /\ last.call.op = "set" /\ last.call.obj = "P" /\ last.err = "none"
    /\ last.call.k = "color" /\ last.call.value = Str("green")
    /\ get(Heap, "x", "color").ret = Str("green")
    /\ ambientGet(Heap, "x", "color").ret = Str("green")

----------------------------------------------------------------------------
\* the layout and the total width instance o resolves in heap h
FieldsOf(h, o) ==
    IF Holder(h.meta, o) = "null" THEN NoFields ELSE h.meta[Holder(h.meta, o)].fields

WidthOf(h, o) ==
    IF Holder(h.byteLength, o) = "null" THEN 0 ELSE h.byteLength[Holder(h.byteLength, o)].n

RECURSIVE SchemaWidth(_)
SchemaWidth(objMeta) ==
    IF objMeta = <<>> THEN 0
    ELSE getByteStride(Head(objMeta).type) + SchemaWidth(Tail(objMeta))

\* no shape but p was compiled
OnlyShape(h, p) == \A o \in Objects \ {p} : ~h.meta[o].own /\ ~h.byteLength[o].own

(* C2: layered compile, as the specification states it.  When list B is    *)
(* declared on a shape on which alone the lists before it were declared,   *)
(* the total width grows by width(B), every field declared before keeps    *)
(* its offset, and the fields of B lie in declaration order from the       *)
(* former total width on.                                                  *)
C2_LayeredCompile ==
    [][LET p == last'.call.obj
           B == last'.call.values
       IN  (last'.call.op = "declare" /\ OnlyShape(Heap', p)) =>
              /\ WidthOf(Heap', p) = WidthOf(Heap, p) + SchemaWidth(B)
              /\ \A k \in DOMAIN FieldsOf(Heap, p) :
                    /\ k \in DOMAIN FieldsOf(Heap', p)
                    /\ FieldsOf(Heap', p)[k].byteOffset = FieldsOf(Heap, p)[k].byteOffset
              /\ \A n \in 1..Len(B) :
                    /\ B[n].k \in DOMAIN FieldsOf(Heap', p)
                    /\ FieldsOf(Heap', p)[B[n].k].byteOffset
                          = WidthOf(Heap, p) + SchemaWidth(SubSeq(B, 1, n - 1))
      ]_vars

----------------------------------------------------------------------------
\* value is of the JavaScript type the kind's DataView method takes
Matches(kind, value) ==
    /\ value.s = ""
    /\ value.tag = IF kind \in BigKinds THEN "bigint" ELSE "number"

\* the step is the call set(o, k, value), whatever its outcome
IsSet(o, k, value) ==
    /\ last'.call.op = "set" /\ last'.call.obj = o
    /\ last'.call.k = k /\ last'.call.value = value

(* C3: numeric round trip, as the specification states it.  For a field of *)
(* every numeric kind and every value v, set succeeds and the get that     *)
(* follows returns v when the kind represents it, else v reduced to the    *)
(* kind.                                                                   *)
C3_RoundTripEveryValue ==
    [][\A v \in CodecNumbers \cup CodecBigInts :
         (IsSet("o1", "value", v) /\ ~IsArray(TypeOfValue)) =>
            /\ last'.err = "none"
            /\ get(Heap', "o1", "value").ret.n = Reduce(TypeOfValue.kind, v.n)
      ]_vars

(* C3, amended.  For a field of every numeric kind and every value v of    *)
(* the JavaScript type the kind takes (a BigInt for BigInt64 and           *)
(* BigUint64, a Number for the other kinds), set succeeds and the get that *)
(* follows returns v when the kind represents it, else v reduced to the    *)
(* kind.  For a value of the other type set throws a TypeError and the     *)
(* region keeps its bytes.                                                 *)
C3_RoundTrip ==
    [][\A v \in CodecNumbers \cup CodecBigInts :
         (IsSet("o1", "value", v) /\ ~IsArray(TypeOfValue)) =>
            IF Matches(TypeOfValue.kind, v)
            THEN /\ last'.err = "none"
                 /\ get(Heap', "o1", "value").err = "none"
                 /\ get(Heap', "o1", "value").ret = Stored(TypeOfValue, v)
            ELSE /\ last'.err = "TypeError"
                 /\ regions' = regions
      ]_vars

\* 200 was written to an Int8 and reads as -56
C3_Witness ==
    /\ TypeOfValue = Numeric("Int8")
    /\ last.call.op = "set" /\ last.call.value = Num(200) /\ last.err = "none"
    /\ get(Heap, "o1", "value").ret = Num(-56)

(* C4: enum fidelity.  For a field whose type is a list of variants, set   *)
(* of a variant succeeds and the get that follows returns that variant;    *)
(* set of a value that is no variant fails with the invalid-variant error  *)
(* and the region keeps its bytes.                                         *)
C4_EnumFidelity ==
    [][\A v \in CodecStrings \cup CodecNumbers :
         (IsSet("o1", "value", v) /\ IsArray(TypeOfValue)) =>
            IF \E n \in 1..Len(TypeOfValue.variants) : TypeOfValue.variants[n] = v
            THEN /\ last'.err = "none"
                 /\ get(Heap', "o1", "value").err = "none"
                 /\ get(Heap', "o1", "value").ret = v
            ELSE /\ last'.err = "InvalidVariant"
                 /\ regions' = regions
      ]_vars

\* variant c was written and is read
C4_Witness ==
    /\ IsArray(TypeOfValue)
    /\ last.call.op = "set" /\ last.call.value = Str("c") /\ last.err = "none"
    /\ get(Heap, "o1", "value").ret = Str("c")

----------------------------------------------------------------------------
(* The validated accessor surface (SpecAccess).                            *)

\* the bytes of field k in the region instance o resolves, -1 for a byte
\* the region is too short to hold
FieldBytes(h, o, k) ==
    LET desc == FieldsOf(h, o)[k]
        dh == Holder(h.data, o)
        bytes == IF dh = "null" THEN <<>> ELSE h.regions[h.data[dh].view]
    IN  [n \in 1..getByteStride(desc.type) |->
            IF desc.byteOffset + n <= Len(bytes) THEN bytes[desc.byteOffset + n] ELSE -1]

\* instance o is bound to a region that holds the bytes of its field k
Holds(h, o, k) == \A n \in DOMAIN FieldBytes(h, o, k) : FieldBytes(h, o, k)[n] # -1

\* value is valid for the data type: of the kind's JavaScript type, a variant
ValidFor(type, value) ==
    IF IsArray(type) THEN \E n \in 1..Len(type.variants) : type.variants[n] = value
    ELSE Matches(type.kind, value)

\* the check of field k rejects value
Rejected(o, k, value) == k \in DOMAIN Fields(o) /\ Rejects(Fields(o)[k].check, value)

\* the first n - 1 entries of the value map are assigned without an error
PrefixAssigned(o, values, n) == assign(Heap, o, SubSeq(values, 1, n - 1)).err = "none"

(* C5: validator rejection.  When assign comes to an entry whose field's   *)
(* validator rejects its value, and when the ambient setter of a writable  *)
(* field is given a value its validator rejects, the call fails with the   *)
(* validation error and the bytes of that field in the bound region are    *)
(* those before the call.                                                  *)
C5_ValidatorRejection ==
    [][\A k \in AccessKeys : \A v \in ValuesFor(k) :
         /\ (/\ last'.call.op = "ambientSet" /\ last'.call.obj = "x"
             /\ last'.call.k = k /\ last'.call.value = v
             /\ HasSetter("x", k) /\ Rejected("x", k, v)) =>
               /\ last'.err = "ValidationError"
               /\ FieldBytes(Heap', "x", k) = FieldBytes(Heap, "x", k)
         /\ \A vs \in AccessMaps, n \in 1..3 :
               (/\ last'.call.op = "assign" /\ last'.call.obj = "x"
                /\ last'.call.values = vs
                /\ n <= Len(vs) /\ vs[n] = Entry(k, v)
                /\ PrefixAssigned("x", vs, n) /\ Rejected("x", k, v)) =>
                  /\ last'.err = "ValidationError"
                  /\ FieldBytes(Heap', "x", k) = FieldBytes(Heap, "x", k)
      ]_vars

\* assign of a negative height was refused and the height written before
\* it is still read
C5_Witness ==
    /\ last.call.op = "assign" /\ last.call.values = <<Entry("height", Num(-100))>>
    /\ last.err = "ValidationError"
    /\ Holds(Heap, "x", "height")
    /\ get(Heap, "x", "height").ret = Num(5)

(* C6: set is unchecked.  On an instance bound to a region that holds      *)
(* field f, set of a value valid for f's data type succeeds and the get    *)
(* that follows returns the value, also when f's validator rejects it.     *)
C6_SetUnchecked ==
    [][\A k \in AccessKeys : \A v \in ValuesFor(k) :
         (/\ IsSet("x", k, v) /\ k \in DOMAIN Fields("x")
          /\ Holds(Heap, "x", k) /\ ValidFor(Fields("x")[k].type, v)) =>
            /\ last'.err = "none"
            /\ get(Heap', "x", k).err = "none"
            /\ get(Heap', "x", k).ret = Stored(Fields("x")[k].type, v)
      ]_vars

\* set wrote the height its validator rejects
C6_Witness ==
    /\ last.call.op = "set" /\ last.call.k = "height" /\ last.call.value = Num(-100)
    /\ Rejected("x", "height", Num(-100))
    /\ last.err = "none"
    /\ get(Heap, "x", "height").ret = Num(-100)

\* the step is the ambient assignment o.k = value, whatever its outcome
IsAmbientSet(o, k, value) ==
    /\ last'.call.op = "ambientSet" /\ last'.call.obj = o
    /\ last'.call.k = k /\ last'.call.value = value

\* the step is assign(o, {k: value}), whatever its outcome
IsAssignOne(o, k, value) ==
    /\ last'.call.op = "assign" /\ last'.call.obj = o
    /\ last'.call.values = <<Entry(k, value)>>

ReadOnly(o) == {k \in DOMAIN Fields(o) : ~Fields(o)[k].writable}

Private(o) == {k \in DOMAIN Fields(o) : Fields(o)[k].private}

(* C7: writability.  A field declared with writable: false has no ambient  *)
(* setter on any object, and an ambient assignment to it leaves every      *)
(* region as it was.  On an instance bound to a region that holds the      *)
(* field, set of a value valid for its data type writes the value, and     *)
(* assign of such a value fails with the validation error and writes       *)
(* nothing when the field's validator rejects it, and writes it when the   *)
(* validator accepts it.                                                   *)
C7_Writability ==
    [][/\ \A o \in Objects : \A k \in ReadOnly(o)' : ~HasSetter(o, k)'
       /\ \A k \in ReadOnly("x") : \A v \in ValuesFor(k) :
             /\ IsAmbientSet("x", k, v) => regions' = regions
             /\ (/\ IsSet("x", k, v)
                 /\ Holds(Heap, "x", k) /\ ValidFor(Fields("x")[k].type, v)) =>
                   /\ last'.err = "none"
                   /\ get(Heap', "x", k).ret = Stored(Fields("x")[k].type, v)
             /\ (/\ IsAssignOne("x", k, v)
                 /\ Holds(Heap, "x", k) /\ ValidFor(Fields("x")[k].type, v)) =>
                   IF Rejected("x", k, v)
                   THEN last'.err = "ValidationError" /\ regions' = regions
                   ELSE /\ last'.err = "none"
                        /\ get(Heap', "x", k).ret = Stored(Fields("x")[k].type, v)
      ]_vars

\* the readonly eyeColor was set to brown, and the ambient assignment of
\* glowing that followed left it brown
C7_Witness ==
    /\ "eyeColor" \in ReadOnly("x") /\ ~HasSetter("x", "eyeColor")
    /\ last.call.op = "ambientSet" /\ last.call.k = "eyeColor"
    /\ last.call.value = Str("glowing")
    /\ Holds(Heap, "x", "eyeColor")
    /\ get(Heap, "x", "eyeColor").ret = Str("brown")

(* C8: visibility.  A field declared with private: true has no ambient     *)
(* accessor on any object: reading it as a property gives undefined and    *)
(* assigning to it as a property leaves every region as it was.  On an     *)
(* instance bound to a region that holds the field, set of a value valid   *)
(* for its data type writes the value and the get that follows returns it. *)
C8_Visibility ==
    [][/\ \A o \in Objects : \A k \in Private(o)' :
             AccessorHolder(accessors, o, k)' = "null"
       /\ \A k \in Private("x") : \A v \in ValuesFor(k) :
             /\ IsAmbientSet("x", k, v) => regions' = regions
             /\ (last'.call.op = "ambientGet" /\ last'.call.obj = "x" /\ last'.call.k = k) =>
                   last'.ret = Undefined
             /\ (/\ IsSet("x", k, v)
                 /\ Holds(Heap, "x", k) /\ ValidFor(Fields("x")[k].type, v)) =>
                   /\ last'.err = "none"
                   /\ get(Heap', "x", k).err = "none"
                   /\ get(Heap', "x", k).ret = Stored(Fields("x")[k].type, v)
      ]_vars

\* the private opinion holds the no that set wrote, and read as a property
\* it is undefined
C8_Witness ==
    /\ "opinion" \in Private("x")
    /\ last.call.op = "ambientGet" /\ last.call.k = "opinion" /\ last.ret = Undefined
    /\ Holds(Heap, "x", "opinion")
    /\ get(Heap, "x", "opinion").ret = Str("no")

----------------------------------------------------------------------------
(* Calls before a region is bound.                                         *)

(* C9: share before binding, as the specification states it.  share on an  *)
(* instance on which neither allocateData nor accept was called fails with *)
(* the not-allocated error and returns no region; share on an instance on  *)
(* which one was called returns the region bound to it.                    *)
C9_ShareNeverBound ==
    last.call.op = "share" =>
       IF ~data[last.call.obj].own
       THEN last.err = "NotAllocated" /\ last.view = 0
       ELSE last.err = "none" /\ last.view = data[last.call.obj].view

(* C9, amended.  share on an instance fails with the not-allocated error   *)
(* and returns no region when neither the instance nor an object on its    *)
(* prototype chain was bound by allocateData or accept; otherwise it       *)
(* returns the region bound to the nearest bound object of the chain, the  *)
(* instance first.                                                         *)
C9_Share ==
    last.call.op = "share" =>
       IF Holder(data, last.call.obj) = "null"
       THEN last.err = "NotAllocated" /\ last.view = 0
       ELSE /\ last.err = "none"
            /\ last.view = data[Holder(data, last.call.obj)].view
            /\ data[last.call.obj].own => last.view = data[last.call.obj].view

\* instance x, on which neither call was made, shares the region its
\* prototype P accepted
C9_Witness ==
    /\ last.call.op = "share" /\ last.call.obj = "x"
    /\ ~data["x"].own /\ data["P"].own
    /\ last.err = "none" /\ last.view = data["P"].view /\ last.view # 0

\* the errors of a call that finds no region: the string share throws, and
\* the TypeError of get and set on reading a method of undefined
NotAllocatedErrors == {"NotAllocated", "NoData"}

\* o has a declared layout and no region is bound to it
Unbound(o) == DOMAIN Fields(o) # {} /\ Holder(data, o) = "null"

(* C10: calls on an unbound instance, as the specification states it.  On  *)
(* an instance with a declared layout and no region bound, get and set of  *)
(* every field and assign of every value map fail with the not-allocated   *)
(* error.                                                                  *)
C10_UnboundFails ==
    LET c == last.call
    IN  (/\ Unbound(c.obj)
         /\ \/ c.op \in {"get", "set"} /\ c.k \in DOMAIN Fields(c.obj)
            \/ c.op = "assign") =>
           last.err \in NotAllocatedErrors

\* the index of the first entry of the value map whose key is found in the
\* layout object: a field, or a name every object inherits; 0 when the map
\* has no such key
RECURSIVE FirstDeclared(_, _, _)
FirstDeclared(o, values, n) ==
    IF n > Len(values) THEN 0
    ELSE IF values[n].k \in DOMAIN Fields(o) \cup InheritedKeys THEN n
    ELSE FirstDeclared(o, values, n + 1)

\* what get of the name k fails with when no region is bound
UnboundGetError(o, k) ==
    IF k \in DOMAIN Fields(o) \cup InheritedKeys THEN "NoData" ELSE "NoDescriptor"

\* what set of value to the name k fails with when no region is bound
UnboundSetError(o, k, value) ==
    IF k \in InheritedKeys \ DOMAIN Fields(o) THEN "NoData"
    ELSE IF k \notin DOMAIN Fields(o) THEN "NoDescriptor"
    ELSE IF IsArray(Fields(o)[k].type) /\ ~ValidFor(Fields(o)[k].type, value)
    THEN "InvalidVariant"
    ELSE "NoData"

(* C10, amended.  On an instance with a declared layout and no region      *)
(* bound to it or to an object of its prototype chain: get of a field      *)
(* fails with the not-allocated error; set of a field fails with it        *)
(* unless the field is a list of variants and the value is none of them,   *)
(* when it fails with the invalid-variant error; get and set of a name     *)
(* that is no field fail on the missing descriptor, or, for a name every   *)
(* object inherits, with the not-allocated error; assign of a value map    *)
(* none of whose keys is found in the layout object succeeds, and          *)
(* otherwise fails at the first key found there (a field, or an inherited  *)
(* name), with the validation error when it is a field whose validator     *)
(* rejects the value and with the error of set otherwise.                  *)
C10_Unbound ==
    LET c == last.call
        n == FirstDeclared(c.obj, c.values, 1)
    IN  Unbound(c.obj) =>
           /\ c.op = "get" =>
                 last.err = UnboundGetError(c.obj, c.k)
           /\ c.op = "set" => last.err = UnboundSetError(c.obj, c.k, c.value)
           /\ c.op = "assign" =>
                 last.err = IF n = 0 THEN "none"
                            ELSE IF Rejected(c.obj, c.values[n].k, c.values[n].value)
                            THEN "ValidationError"
                            ELSE UnboundSetError(c.obj, c.values[n].k, c.values[n].value)

\* get of the declared height on the unbound x failed for want of a region
C10_Witness ==
    /\ Unbound("x")
    /\ last.call.op = "get" /\ last.call.obj = "x" /\ last.call.k = "height"
    /\ last.err = "NoData"

----------------------------------------------------------------------------
(* Plain objects (SpecObjects).                                            *)

(* C11: out-of-range index, as the specification states it.  get of a      *)
(* field whose type is a list of variants, on an instance whose region     *)
(* holds at the field's offset a byte that is no index of the list, fails  *)
(* with the out-of-range-index error; and a get of such a field that       *)
(* returns, returns one of the variants.                                   *)
C11_OutOfRangeIndex ==
    LET c == last.call
        type == Fields(c.obj)[c.k].type
        bytes == FieldBytes(Heap, c.obj, c.k)
    IN  (/\ c.op = "get" /\ c.k \in DOMAIN Fields(c.obj)
         /\ IsArray(type) /\ bytes[1] # -1) =>
           /\ bytes[1] >= Len(type.variants) => last.err = "OutOfRangeIndex"
           /\ last.err = "none" => \E n \in 1..Len(type.variants) : type.variants[n] = last.ret

\* a call allocateData(instance, targetPrototype), the second argument given
\* or defaulted
IsAllocateData(c) == c.op = "allocateData"

\* the region instance o has as its own binding in heap h
OwnRegion(h, o) == h.regions[h.data[o].view]

\* the step made one more region and changed none of those there were
FreshRegion ==
    /\ Len(regions') = Len(regions) + 1
    /\ SubSeq(regions', 1, Len(regions)) = regions

(* C12: allocateData, as the specification states it.  A call              *)
(* allocateData(instance, sizeSource) leaves the instance bound, as its    *)
(* own binding, to a region the call made, all of whose bytes are 0 and    *)
(* whose length is the total width of sizeSource: the width of the shape   *)
(* when sizeSource is the instance or another shape, the count itself when *)
(* sizeSource is a byte count.                                             *)
C12_AllocateEveryForm ==
    [][LET c == last'.call
       IN  IsAllocateData(c) =>
             /\ last'.err = "none" /\ FreshRegion
             /\ data'[c.obj].own /\ data'[c.obj].view = Len(regions')
             /\ OwnRegion(Heap', c.obj) =
                  Zeros(IF c.k = byteCount THEN ByteCount ELSE WidthOf(Heap, c.k))]_vars

(* C12, amended: the same for a sizeSource that is the instance or another *)
(* shape, whose width is the one it resolves through its prototype chain   *)
(* and is 0 when no layout was compiled; for a sizeSource that is a byte   *)
(* count the region made is 0 bytes long.                                  *)
C12_Allocate ==
    [][LET c == last'.call
       IN  IsAllocateData(c) =>
             /\ last'.err = "none" /\ FreshRegion
             /\ data'[c.obj].own /\ data'[c.obj].view = Len(regions')
             /\ OwnRegion(Heap', c.obj) =
                  Zeros(IF c.k = byteCount THEN 0 ELSE WidthOf(Heap, c.k))]_vars

\* o1, which prepareObject bound to the first region, was bound anew by
\* allocateData(o1, o2) to a second region of o2's 12 bytes, all 0, while
\* the first region keeps a byte that was written
C12_Witness ==
    /\ IsAllocateData(last.call) /\ last.call.obj = "o1" /\ last.call.k = "o2"
    /\ Fields("o1") # NoFields /\ WidthOf(Heap, "o2") = 12
    /\ data["o1"].view = 2 /\ regions[2] = Zeros(12)
    /\ \E n \in DOMAIN regions[1] : regions[1][n] # 0

\* a call that binds the instance to a DataView it was handed
IsBinding(c) == c.op \in {"accept", "manifestObject"}

\* in heap h, instance i is bound to region r by a buffer it allocated itself
Originator(h, i, r) == h.data[i].own /\ h.data[i].given = 0 /\ h.data[i].view = r

(* C13: region identity.  A call accept(instance, r) or                    *)
(* manifestObject(r, fieldSpecs) makes no region and changes none; share   *)
(* of the instance it returns then returns r itself; and every field the   *)
(* instance has with the descriptor an originator of r has for it reads,   *)
(* through the instance, what the originator read before the call.         *)
C13_RegionIdentity ==
    [][LET c == last'.call
           r == c.value.n
       IN  (IsBinding(c) /\ last'.err = "none") =>
             /\ regions' = regions
             /\ share(Heap', c.obj).err = "none"
             /\ share(Heap', c.obj).view = r
             /\ \A i \in Plain : Originator(Heap, i, r) =>
                  \A k \in DOMAIN FieldsOf(Heap', c.obj) \cap DOMAIN FieldsOf(Heap, i) :
                     FieldsOf(Heap', c.obj)[k] = FieldsOf(Heap, i)[k] =>
                        /\ get(Heap', c.obj, k).err = get(Heap, i, k).err
                        /\ get(Heap', c.obj, k).ret = get(Heap, i, k).ret]_vars

\* o1 allocated the first region and wrote 'tea'; manifestObject made o2 on
\* that region, and o2 reads 'tea'
C13_Witness ==
    /\ last.call.op = "manifestObject" /\ last.call.obj = "o2" /\ last.call.value = Num(1)
    /\ Originator(Heap, "o1", 1) /\ Fields("o1") = Fields("o2")
    /\ regions[1][1] = 1
    /\ get(Heap, "o2", "favoriteDrink").ret = Str("tea")
    /\ share(Heap, "o2").view = 1

\* a call of prepareObject, in either form
IsPrepareObject(c) == c.op = "prepareObject"

(* C14: prepareObject, as the specification states it.  A call of          *)
(* prepareObject with field specifications returns an instance whose       *)
(* layout has exactly the fields specified, the first at offset 0 and each *)
(* next one where the one before ends, bound to a region the call made,    *)
(* all 0 and as long as the layout is wide, so that every field lies       *)
(* inside the region and get and set of it succeed at once.                *)
C14_PrepareObject ==
    [][LET c == last'.call
           fieldSpecs == c.values
           o == c.obj
       IN  IsPrepareObject(c) =>
             /\ last'.err = "none" /\ FreshRegion
             /\ DOMAIN FieldsOf(Heap', o) = KeysOf(fieldSpecs)
             /\ \A n \in 1..Len(fieldSpecs) :
                   FieldsOf(Heap', o)[fieldSpecs[n].k].byteOffset =
                      SchemaWidth(SubSeq(fieldSpecs, 1, n - 1))
             /\ data'[o].own /\ data'[o].view = Len(regions')
             /\ WidthOf(Heap', o) = SchemaWidth(fieldSpecs)
             /\ OwnRegion(Heap', o) = Zeros(SchemaWidth(fieldSpecs))
             /\ \A k \in KeysOf(fieldSpecs) :
                   /\ Holds(Heap', o, k)
                   /\ get(Heap', o, k).err = "none"
                   /\ \A v \in ValuesFor(k) : set(Heap', o, k, v).err = "none"]_vars

----------------------------------------------------------------------------
(* assign over several keys (SpecAccess).                                  *)

\* the entries of the value map whose keys are fields of o's layout
RECURSIVE LayoutEntries(_, _)
LayoutEntries(o, values) ==
    IF values = <<>> THEN <<>>
    ELSE IF Head(values).k \in DOMAIN Fields(o)
    THEN <<Head(values)>> \o LayoutEntries(o, Tail(values))
    ELSE LayoutEntries(o, Tail(values))

(* C15: keys that are no fields, as the specification states it.  On an    *)
(* instance bound to a region, assign of a value map does what assign of   *)
(* the map without the keys that are no fields of the instance's layout    *)
(* does: the same error or none, the same bytes; so when no key of the map *)
(* is a field, no error is raised and no byte of any region changes.       *)
C15_ForeignKeysIgnored ==
    [][LET c == last'.call
           kept == assign(Heap, c.obj, LayoutEntries(c.obj, c.values))
       IN  (c.op = "assign" /\ Holder(meta, c.obj) # "null" /\ Holder(data, c.obj) # "null") =>
              /\ last'.err = kept.err
              /\ regions' = kept.h.regions
              /\ LayoutEntries(c.obj, c.values) = <<>> =>
                    last'.err = "none" /\ regions' = regions]_vars

\* assign writes this entry: its key is a field the bound region holds,
\* the field's validator accepts the value and the type can store it
Accepted(o, e) ==
    /\ e.k \in DOMAIN Fields(o)
    /\ ~Rejected(o, e.k, e.value)
    /\ ValidFor(Fields(o)[e.k].type, e.value)
    /\ Holds(Heap, o, e.k)

(* C16: assign is not transactional.  When assign is given a map whose     *)
(* n-th entry, n > 1, is rejected by its field's validator and whose       *)
(* entries before it are all written, the call fails with the validation   *)
(* error; each field before the n-th then reads the value the map gave     *)
(* it; and the bytes of the n-th field and of the fields after it are      *)
(* those before the call.                                                  *)
C16_NotTransactional ==
    [][\A vs \in AccessMaps : \A n \in 2..3 :
         (/\ last'.call.op = "assign" /\ last'.call.obj = "x"
          /\ last'.call.values = vs
          /\ n <= Len(vs) /\ Rejected("x", vs[n].k, vs[n].value)
          /\ \A m \in 1..(n - 1) : Accepted("x", vs[m])) =>
            /\ last'.err = "ValidationError"
            /\ \A m \in 1..(n - 1) :
                  get(Heap', "x", vs[m].k).ret = Stored(Fields("x")[vs[m].k].type, vs[m].value)
            /\ \A m \in n..Len(vs) :
                  vs[m].k \in DOMAIN Fields("x") =>
                     FieldBytes(Heap', "x", vs[m].k) = FieldBytes(Heap, "x", vs[m].k)
      ]_vars

\* assign of {height: 5, eyeColor: 'glowing', opinion: 'no'} failed on the
\* eye colour: the height reads 5, the eye colour is not 'glowing' and the
\* opinion is still the 'yes' of the zeroed region
C16_Witness ==
    /\ last.call.op = "assign" /\ last.call.obj = "x"
    /\ last.call.values = <<Entry("height", Num(5)), Entry("eyeColor", Str("glowing")),
                            Entry("opinion", Str("no"))>>
    /\ last.err = "ValidationError"
    /\ get(Heap, "x", "height").ret = Num(5)
    /\ get(Heap, "x", "eyeColor").ret # Str("glowing")
    /\ get(Heap, "x", "opinion").ret = Str("yes")

----------------------------------------------------------------------------
(* Rebinding (SpecObjects).                                                *)

\* what get returns of a field of this type in a zeroed region
ZeroOf(type) == IF IsArray(type) THEN type.variants[1] ELSE Stored(type, Num(0))

(* C17: rebinding.  When accept or allocateData is called on an instance   *)
(* that has a region bound, every region there was keeps its bytes, so     *)
(* nothing is carried over from the old region to the new one: a region    *)
(* made by allocateData is all 0 and the instance reads the zero value of  *)
(* every field it holds, and after accept the instance reads what a holder *)
(* of the accepted region with the same descriptor read before; every      *)
(* other instance bound to the old region reads what it read before; and   *)
(* a set through an instance changes no region but the one bound to it.    *)
C17_Rebinding ==
    [][LET c == last'.call
           o == c.obj
           r1 == data[o].view
           r2 == data'[o].view
       IN  /\ (c.op \in {"accept", "allocateData"} /\ data[o].own) =>
                /\ SubSeq(regions', 1, Len(regions)) = regions
                /\ data'[o].own
                /\ c.op = "accept" => r2 = c.value.n
                /\ c.op = "allocateData" =>
                      /\ r2 = Len(regions) + 1
                      /\ \A n \in DOMAIN regions'[r2] : regions'[r2][n] = 0
                      /\ \A k \in DOMAIN FieldsOf(Heap', o) :
                            Holds(Heap', o, k) =>
                               get(Heap', o, k).ret = ZeroOf(FieldsOf(Heap', o)[k].type)
                /\ \A p \in Plain \ {o} :
                      /\ (data[p].own /\ data[p].view = r1) =>
                            \A k \in DOMAIN Fields(p) :
                               /\ get(Heap', p, k).ret = get(Heap, p, k).ret
                               /\ get(Heap', p, k).err = get(Heap, p, k).err
                      /\ (c.op = "accept" /\ data[p].own /\ data[p].view = r2) =>
                            \A k \in DOMAIN Fields(p) \cap DOMAIN Fields(o) :
                               Fields(p)[k] = Fields(o)[k] =>
                                  get(Heap', o, k).ret = get(Heap, p, k).ret
           /\ (c.op = "set" /\ data[o].own) =>
                \A q \in 1..Len(regions) : q # r1 => regions'[q] = regions[q]
      ]_vars

\* o1, which prepareObject bound to the first region and which wrote 'tea'
\* there, was bound anew by allocateData: it reads 'water' from the zeroed
\* second region, while o2, bound to the first, still reads 'tea'
C17_Witness ==
    /\ IsAllocateData(last.call) /\ last.call.obj = "o1" /\ last.call.k = "o1"
    /\ Fields("o1") = Fields("o2") /\ "favoriteDrink" \in DOMAIN Fields("o1")
    /\ data["o1"].view = 2 /\ data["o2"].own /\ data["o2"].view = 1
    /\ Len(regions[1]) = 12 /\ regions[1][1] = 1 /\ regions[2] = Zeros(12)
    /\ get(Heap, "o1", "favoriteDrink").ret = Str("water")
    /\ get(Heap, "o2", "favoriteDrink").ret = Str("tea")

----------------------------------------------------------------------------
(* The reservation of a list of variants (SpecObjects).                    *)

\* the number of the variant in its list, counted from 0
RECURSIVE IndexIn(_, _)
IndexIn(variants, value) ==
    IF variants = <<>> THEN -1
    ELSE IF Head(variants) = value THEN 0
    ELSE IF IndexIn(Tail(variants), value) = -1 THEN -1
    ELSE 1 + IndexIn(Tail(variants), value)

(* C18: the reservation of a field that is a list of variants.  Such a     *)
(* field takes 8 bytes of the layout: declare of {speed: Uint8, color:     *)
(* [red, green, blue]} gives a width of 9, and in every layout with the    *)
(* three-variant favoriteDrink the next field starts 8 bytes after it and  *)
(* the width is 8 + 4.  A set of such a field through a bound instance     *)
(* changes no byte of any region but the one at the field's byteOffset in  *)
(* the region bound to the instance; when it succeeds that byte is the     *)
(* number of the variant, and get returns the variant whatever the other 7 *)
(* bytes of the reservation hold.                                          *)
C18_ClosedSetReservation ==
    [][/\ WidthOf(declare(EmptyHeap, "o1", speedColor).h, "o1") = 9
       /\ \A o \in Plain :
            "favoriteDrink" \in DOMAIN FieldsOf(Heap', o) =>
               /\ FieldsOf(Heap', o)["preferredTemperature"].byteOffset =
                     FieldsOf(Heap', o)["favoriteDrink"].byteOffset + 8
               /\ WidthOf(Heap', o) = 12
       /\ LET c == last'.call
              o == c.obj
              r == data[Holder(data, o)].view
              at == Fields(o)[c.k].byteOffset + 1
          IN  (/\ c.op = "set" /\ c.k \in DOMAIN Fields(o)
               /\ IsArray(Fields(o)[c.k].type) /\ Holder(data, o) # "null") =>
                 /\ Len(regions') = Len(regions)
                 /\ \A q \in 1..Len(regions) :
                       /\ Len(regions'[q]) = Len(regions[q])
                       /\ \A n \in DOMAIN regions[q] :
                             (q # r \/ n # at) => regions'[q][n] = regions[q][n]
                 /\ last'.err = "none" =>
                       /\ regions'[r][at] = IndexIn(Fields(o)[c.k].type.variants, c.value)
                       /\ get(Heap', o, c.k).ret = c.value
      ]_vars

\* 'tea' was set through o2 in a region where o1 had written the Float32 50
\* as the bytes 66, 72, 0, 0: only the first byte changed, the 72 in the
\* reservation is still there, and o2 reads 'tea'
C18_Witness ==
    /\ last.call.op = "set" /\ last.call.obj = "o2" /\ last.call.k = "favoriteDrink"
    /\ last.err = "none" /\ data["o2"].own
    /\ regions[data["o2"].view] = <<1, 72, 0, 0>>
    /\ get(Heap, "o2", "favoriteDrink").ret = Str("tea")

----------------------------------------------------------------------------
(* Layouts under repeated and derived declare (SpecLayout).                *)

\* the sum of the widths of the descriptors of these keys
RECURSIVE DescriptorWidth(_, _)
DescriptorWidth(fields, keys) ==
    IF keys = {} THEN 0
    ELSE LET k == CHOOSE x \in keys : TRUE
         IN  getByteStride(fields[k].type) + DescriptorWidth(fields, keys \ {k})

(* C19: append-only layout, as the specification states it.  Every declare *)
(* call on a shape, no other shape being compiled, keeps every descriptor  *)
(* the layout had, each at the byteOffset it had, and leaves the total     *)
(* width equal to the sum of the widths of the layout's descriptors, also  *)
(* when the call names a field that was declared before.                   *)
C19_AppendOnly ==
    [][LET p == last'.call.obj
       IN  (last'.call.op = "declare" /\ OnlyShape(Heap', p)) =>
              /\ \A k \in DOMAIN FieldsOf(Heap, p) :
                    /\ k \in DOMAIN FieldsOf(Heap', p)
                    /\ FieldsOf(Heap', p)[k].byteOffset = FieldsOf(Heap, p)[k].byteOffset
              /\ WidthOf(Heap', p) =
                    DescriptorWidth(FieldsOf(Heap', p), DOMAIN FieldsOf(Heap', p))
      ]_vars

\* shape d inherits from a shape that has a layout of its own
Derived(h, d) == Proto[d] # "null" /\ h.meta[Proto[d]].own

(* C20: derived shapes, as the specification states it.  A declare call,   *)
(* of names not declared before, on a shape that inherits from a base with *)
(* a layout leaves the base's descriptors and total width as they were;    *)
(* when it is the first on that shape, its fields start at the base's      *)
(* total width; and no other shape, the base and the siblings included,    *)
(* gets a field it had not before.                                         *)
C20_DerivedShapes ==
    [][LET d == last'.call.obj
           b == Proto[d]
           B == last'.call.values
       IN  (/\ last'.call.op = "declare" /\ Derived(Heap, d)
            /\ KeysOf(B) \cap DOMAIN FieldsOf(Heap, d) = {}) =>
              /\ meta'[b].fields = meta[b].fields
              /\ WidthOf(Heap', b) = WidthOf(Heap, b)
              /\ (~byteLength[d].own /\ B # <<>>) =>
                    FieldsOf(Heap', d)[B[1].k].byteOffset = WidthOf(Heap, b)
              /\ \A e \in LayoutShapes \ {d} :
                    DOMAIN FieldsOf(Heap', e) = DOMAIN FieldsOf(Heap, e)
      ]_vars

----------------------------------------------------------------------------
(* Sets from several contexts (SpecInterleaved).                           *)

\* no context is in the middle of a store
Quiescent(w) == \A c \in Contexts : w[c] = Idle

\* the step is a byte of the store of context c reaching the buffer
IsStoreByte(c) == writing[c] # Idle /\ writing'[c] # writing[c]

(* C21: field isolation under interleaving.  Instances of one layout are   *)
(* bound to one region, each in a context of its own, and their sets       *)
(* interleave byte by byte.  A byte stored for one property changes the    *)
(* bytes of no other property; and whenever no store is under way, every   *)
(* property whose last set did not race with a set of the same property    *)
(* reads, through every instance bound to the region, as the value of that *)
(* last set.                                                               *)
C21_FieldIsolation ==
    [][/\ \A c \in Contexts :
            IsStoreByte(c) =>
               \A o \in Contexts, k \in KeysOf(drinker) \ {writing[c].k} :
                  k \in DOMAIN Fields(o) =>
                     FieldBytes(Heap', o, k) = FieldBytes(Heap, o, k)
       /\ Quiescent(writing') =>
            \A k \in KeysOf(drinker) :
               lastSet'[k].value \notin {Undefined, Raced} =>
                  \A o \in Contexts :
                     (k \in DOMAIN FieldsOf(Heap', o) /\ Holder(data', o) # "null") =>
                        /\ get(Heap', o, k).err = "none"
                        /\ get(Heap', o, k).ret =
                              Stored(FieldsOf(Heap', o)[k].type, lastSet'[k].value)
      ]_vars

\* the worker's set of the temperature to 5 began while the other context
\* was in the middle of its store of 'coffee'; both stores are done, and
\* each instance reads both values
C21_Witness ==
    /\ Quiescent(writing)
    /\ lastSet["preferredTemperature"] = [value |-> Num(5), amid |-> TRUE]
    /\ lastSet["favoriteDrink"].value = Str("coffee")
    /\ last.call.op = "set" /\ last.call.obj = "o2" /\ last.call.k = "preferredTemperature"
    /\ Fields("o1") = Fields("o2") /\ data["o1"].view = data["o2"].view
    /\ \A o \in Contexts :
          /\ get(Heap, o, "preferredTemperature").ret = Num(5)
          /\ get(Heap, o, "favoriteDrink").ret = Str("coffee")

====
